---------------------------- MODULE Spec2Model ----------------------------
(***************************************************************************)
(* Model of merchant-shield-api/app/app.py: the risk-analysis request      *)
(* pipeline (analyze_risk), the module start-up that loads the model and   *)
(* the feature schema, and the background audit thread that runs           *)
(* log_request.                                                            *)
(*                                                                         *)
(* Probabilities are integers in units of 10^-5 (ProbScale = 1.0), the     *)
(* rounded fraud_probability is an integer in units of 10^-4.              *)
(***************************************************************************)
EXTENDS Integers, Sequences, FiniteSets, TLC

\* ------------------------------------------------------------------ bounds

\* Number of analyze-risk requests that can be in flight or finished.
MaxReq == 2

Reqs == 1..MaxReq

\* ------------------------------------------------------- values and inputs

None == [t |-> "None"]

\* A request that has not arrived has no credential; the local prob is
\* unbound before line 89.
NoCredential == "-"
NoProb == -1

Num(n) == [t |-> "num", v |-> n]
NaN == [t |-> "nan", v |-> 0]
Str(s) == [t |-> "str", v |-> 0]

\* The schema of the spec's scenarios, and an empty feature list.
Schema3 == <<"amount", "hour", "merchant_risk">>
SchemaSources == {Schema3, <<>>}

\* Credentials a caller can supply in the request header.
Credentials == {"valid", "invalid", "missing"}

\* JSON objects a caller can send: complete, complete with an unrecognised
\* key, a second complete one, one lacking merchant_risk, one with a value
\* that is no number, one whose amount is the JSON literal NaN.
PayloadA == [amount |-> Num(250), hour |-> Num(3), merchant_risk |-> Num(9)]
PayloadAx == [hour |-> Num(3), extra |-> Str("x"), amount |-> Num(250),
              merchant_risk |-> Num(9)]
PayloadB == [amount |-> Num(100), hour |-> Num(3), merchant_risk |-> Num(1)]
PayloadMissing == [amount |-> Num(250), hour |-> Num(3)]
PayloadBadType == [amount |-> Num(250), hour |-> Str("abc"), merchant_risk |-> Num(9)]
PayloadNaN == [amount |-> NaN, hour |-> Num(3), merchant_risk |-> Num(9)]

Object(p) == [t |-> "object", v |-> p]

Objects == {Object(PayloadA), Object(PayloadAx), Object(PayloadB),
            Object(PayloadMissing), Object(PayloadBadType), Object(PayloadNaN)}

\* Request bodies: a JSON object, the JSON value null, a JSON array, bytes
\* that are no JSON, no body at all, a body sent with another content type.
Bodies == Objects \cup {[t |-> "null"], [t |-> "array"], [t |-> "unparseable"],
                        [t |-> "empty"], [t |-> "not_json_type"]}


\* ------------------------------------------------------------- exceptions

\* An exception object: its class family and str(e).
\*   "ValueError"     ValueError and its subclasses
\*   "HTTPException"  werkzeug's BadRequest / UnsupportedMediaType / Unauthorized
\*   "Exception"      any other Exception (AttributeError, RuntimeError, ...)
Raise(type, msg) == [raised |-> TRUE, type |-> type, msg |-> msg]
Return(v) == [raised |-> FALSE, value |-> v]

\* ---------------------------------------------------------- collaborators

\* auth.require_api_key: compares the header's credential with the
\* configured secret and aborts the request with 401 otherwise.
require_api_key(credential) ==
    IF credential = "valid"
    THEN Return(None)
    ELSE Raise("HTTPException", [err |-> "Unauthorized", name |-> ""])

\* flask's request.get_json() with its default arguments: the parsed value,
\* None for the JSON value null, BadRequest for a body that does not parse.
\* A body whose content type is not JSON yields None on flask < 2.1 and
\* raises (400 or 415) on later versions: both outcomes are kept.
get_json(b) ==
    CASE b.t = "object" -> {Return(b)}
      [] b.t = "array" -> {Return(b)}
      [] b.t = "null" -> {Return(None)}
      [] b.t \in {"unparseable", "empty"} ->
            {Raise("HTTPException", [err |-> "BadRequest", name |-> ""])}
      [] b.t = "not_json_type" ->
            {Return(None),
             Raise("HTTPException", [err |-> "UnsupportedMediaType", name |-> ""])}

IsNumber(x) == x.t \in {"num", "nan"}

\* Indices of schema features the payload lacks / holds a non-number for.
MissingIdx(p, schema) == {i \in 1..Len(schema) : schema[i] \notin DOMAIN p}
BadTypeIdx(p, schema) ==
    {i \in 1..Len(schema) : schema[i] \in DOMAIN p /\ ~IsNumber(p[schema[i]])}

Min(S) == CHOOSE x \in S : \A y \in S : x <= y

\* validation.validate_payload: the ordered feature vector, or a ValueError
\* naming the first missing feature, or the first value that is no number.
validate_payload(d, schema) ==
    IF d.t # "object"
    THEN Raise("ValueError", [err |-> "MissingPayloadError", name |-> ""])
    ELSE IF MissingIdx(d.v, schema) # {}
    THEN Raise("ValueError", [err |-> "MissingFeatureError",
                              name |-> schema[Min(MissingIdx(d.v, schema))]])
    ELSE IF BadTypeIdx(d.v, schema) # {}
    THEN Raise("ValueError", [err |-> "InvalidTypeError",
                              name |-> schema[Min(BadTypeIdx(d.v, schema))]])
    ELSE Return([i \in 1..Len(schema) |-> d.v[schema[i]]])

\* ------------------------------------------------------------ the model

\* The threshold 0.5 in units of 10^-5, and in units of 10^-4.
Half == 50000
Half4 == Half \div 10

\* Probabilities a classifier may return for an input: 0.50004, which
\* rounds to 0.5, and the 0.7321 of the spec's scenario C.
Probs == {Half + 4, 73210}

\* Feature vectors of the complete payloads.
VecA == <<Num(250), Num(3), Num(9)>>
VecB == <<Num(100), Num(3), Num(1)>>
ModelInputs == {VecA, VecB}

\* What predict_proba does on a well-formed input: the class-1 probability,
\* or an exception of the estimator (a pickle of another library version).
ModelOutputs == {Return(x) : x \in Probs}
                  \cup {Raise("Exception", [err |-> "AttributeError", name |-> ""])}

\* The artifacts joblib.load can return: a frozen function of the input,
\* with or without the multi_class attribute of its final estimator.
ModelArtifacts ==
    {[fn |-> f, multi_class |-> m] : f \in [ModelInputs -> ModelOutputs],
                                     m \in {"auto", "absent"}}

\* pd.DataFrame([features], columns=FEATURE_NAMES) then
\* model.predict_proba(X)[0][1]: the estimator's input validation raises
\* ValueError for a NaN cell or a wrong number of columns.
predict_proba(m, X) ==
    IF Len(X) # Len(VecA) \/ \E i \in 1..Len(X) : X[i] = NaN
    THEN Raise("ValueError", [err |-> "InputValidation", name |-> ""])
    ELSE m.fn[X]

\* round(float(prob), 4): prob in units of 10^-5 to units of 10^-4. A grid
\* point ending in 5 is rounded the way CPython rounds the doubles nearest
\* 0.49995 and 0.50005 (to even); Probs holds no such point.
Round4(p) ==
    LET q == p \div 10
        r == p % 10
    IN  IF r < 5 THEN q
        ELSE IF r > 5 THEN q + 1
        ELSE IF q % 2 = 0 THEN q ELSE q + 1

\* bool(prob > 0.5)
Flag(p) == p > Half

\* lines 92-95: the response dictionary.
ResponseData(p) == [fraud_probability |-> Round4(p), flagged |-> Flag(p)]


\* --------------------------------------------------------------- responses

Msg(text) == [err |-> text, name |-> ""]

Response(code, b) == [status |-> code, body |-> b]
NoResponse == Response(0, None)

\* Mutant of ExceptResponse: the ValueError clause is missing.
ExceptResponse_NoValueError(e) ==
    Response(500, [error |-> Msg("Internal server error")])

\* lines 105-111: the handler's except clauses.
ExceptResponse(e) ==
    IF e.type = "ValueError"
    THEN Response(400, [error |-> e.msg])
    ELSE Response(500, [error |-> Msg("Internal server error")])

\* Mutant of unauthorized: the handler answers with 403.
unauthorized_403(e) == Response(403, [error |-> Msg("Forbidden")])

\* lines 114-116: the 401 error handler.
unauthorized(e) == Response(401, [error |-> Msg("Unauthorized")])

\* ------------------------------------------------------------------- state

VARIABLES
    proc,           \* start-up position of the process, then "serving"
    model,          \* the module-level model handle
    FEATURE_NAMES,  \* the module-level feature schema
    pc,             \* per request: the handler's position
    cred,           \* per request: the credential in the header
    body,           \* per request: the raw body, once read
    data,           \* per request: the local data
    features,       \* per request: the local features
    prob,           \* per request: the local prob
    response_data,  \* per request: the local response_data
    response,       \* per request: what the client received
    calls,          \* per request: invocation counts of the collaborators
    audit,          \* per request: state of the background thread
    task,           \* per request: the arguments handed to the thread
    store           \* the audit store: the records written

vars == <<proc, model, FEATURE_NAMES, pc, cred, body, data, features, prob,
          response_data, response, calls, audit, task, store>>

shared == <<proc, model, FEATURE_NAMES>>
locals == <<data, features, prob, response_data>>
thread == <<audit, task, store>>

NoCalls == [validate_payload |-> 0, predict_proba |-> 0, start |-> 0, log_request |-> 0]

Init ==
    /\ proc = "load_model"
    /\ model = None
    /\ FEATURE_NAMES = None
    /\ pc = [r \in Reqs |-> "idle"]
    /\ cred = [r \in Reqs |-> NoCredential]
    /\ body = [r \in Reqs |-> None]
    /\ data = [r \in Reqs |-> None]
    /\ features = [r \in Reqs |-> None]
    /\ prob = [r \in Reqs |-> NoProb]
    /\ response_data = [r \in Reqs |-> None]
    /\ response = [r \in Reqs |-> NoResponse]
    /\ calls = [r \in Reqs |-> NoCalls]
    /\ audit = [r \in Reqs |-> "none"]
    /\ task = [r \in Reqs |-> None]
    /\ store = {}

requests == <<pc, cred, body, data, features, prob, response_data, response,
              calls, audit, task, store>>

\* ----------------------------------------------------------------- startup

\* line 23: joblib.load returns the artifact.
LoadModel ==
    /\ proc = "load_model"
    /\ \E m \in ModelArtifacts : model' = m
    /\ proc' = "patch"
    /\ UNCHANGED <<FEATURE_NAMES, requests>>

\* line 23: joblib.load raises; the import of the module fails.
LoadModelFails ==
    /\ proc = "load_model"
    /\ proc' = "crashed"
    /\ UNCHANGED <<model, FEATURE_NAMES, requests>>

\* lines 26-30: the compatibility patch.
PatchModel ==
    /\ proc = "patch"
    /\ model' = IF model.multi_class = "absent"
                THEN [model EXCEPT !.multi_class = "auto"]
                ELSE model
    /\ proc' = "load_schema"
    /\ UNCHANGED <<FEATURE_NAMES, requests>>

\* lines 33-34: the schema file is read; then the server serves.
LoadSchema ==
    /\ proc = "load_schema"
    /\ \E s \in SchemaSources : FEATURE_NAMES' = s
    /\ proc' = "serving"
    /\ UNCHANGED <<model, requests>>

\* lines 33-34: open, json.load or ["features"] raises.
LoadSchemaFails ==
    /\ proc = "load_schema"
    /\ proc' = "crashed"
    /\ UNCHANGED <<model, FEATURE_NAMES, requests>>

\* ------------------------------------------------------------ analyze_risk

Called(r, f) == [calls EXCEPT ![r][f] = @ + 1]

\* The handler returns `resp` to the client.
Finish(r, resp) ==
    /\ response' = [response EXCEPT ![r] = resp]
    /\ pc' = [pc EXCEPT ![r] = "done"]

\* lines 71-72: a request arrives with its credential header. Requests are
\* numbered in the order of their arrival.
Receive(r) ==
    /\ proc = "serving"
    /\ pc[r] = "idle"
    /\ r > 1 => pc[r - 1] # "idle"
    /\ \E c \in Credentials : cred' = [cred EXCEPT ![r] = c]
    /\ pc' = [pc EXCEPT ![r] = "require_api_key"]
    /\ UNCHANGED <<shared, body, locals, response, calls, thread>>

\* Mutant of RequireApiKey: the outcome of the check is not acted upon.
RequireApiKey_Unchecked(r) ==
    /\ pc[r] = "require_api_key"
    /\ pc' = [pc EXCEPT ![r] = "get_json"]
    /\ UNCHANGED <<shared, cred, body, locals, response, calls, thread>>

\* line 73: require_api_key(), outside the try block: its abort(401) goes to
\* the 401 error handler.
RequireApiKey(r) ==
    /\ pc[r] = "require_api_key"
    /\ LET res == require_api_key(cred[r])
       IN  IF res.raised
           THEN Finish(r, unauthorized(res))
           ELSE /\ pc' = [pc EXCEPT ![r] = "get_json"]
                /\ UNCHANGED response
    /\ UNCHANGED <<shared, cred, body, locals, calls, thread>>

\* lines 76-81: the model check, then request.get_json() on the body the
\* caller sent.
GetJson(r) ==
    /\ pc[r] = "get_json"
    /\ IF model = None
       THEN /\ Finish(r, Response(500, [error |-> Msg("Model not loaded")]))
            /\ UNCHANGED <<body, data>>
       ELSE \E b \in Bodies : \E res \in get_json(b) :
              /\ body' = [body EXCEPT ![r] = b]
              /\ IF res.raised
                 THEN Finish(r, ExceptResponse(res)) /\ UNCHANGED data
                 ELSE IF res.value = None
                 THEN /\ Finish(r, Response(400, [error |-> Msg("Invalid JSON")]))
                      /\ UNCHANGED data
                 ELSE /\ data' = [data EXCEPT ![r] = res.value]
                      /\ pc' = [pc EXCEPT ![r] = "validate_payload"]
                      /\ UNCHANGED response
    /\ UNCHANGED <<shared, cred, features, prob, response_data, calls, thread>>

\* Mutant of ValidatePayload: the vector is built in the reverse of the
\* schema's order.
ValidatePayload_Reversed(r) ==
    /\ pc[r] = "validate_payload"
    /\ calls' = Called(r, "validate_payload")
    /\ LET res == validate_payload(data[r], FEATURE_NAMES)
           n == Len(FEATURE_NAMES)
       IN  IF res.raised
           THEN Finish(r, ExceptResponse(res)) /\ UNCHANGED features
           ELSE /\ features' = [features EXCEPT ![r] =
                                    [i \in 1..n |-> res.value[n + 1 - i]]]
                /\ pc' = [pc EXCEPT ![r] = "predict_proba"]
                /\ UNCHANGED response
    /\ UNCHANGED <<shared, cred, body, data, prob, response_data, thread>>

\* line 84: features = validate_payload(data).
ValidatePayload(r) ==
    /\ pc[r] = "validate_payload"
    /\ calls' = Called(r, "validate_payload")
    /\ LET res == validate_payload(data[r], FEATURE_NAMES)
       IN  IF res.raised
           THEN Finish(r, ExceptResponse(res)) /\ UNCHANGED features
           ELSE /\ features' = [features EXCEPT ![r] = res.value]
                /\ pc' = [pc EXCEPT ![r] = "predict_proba"]
                /\ UNCHANGED response
    /\ UNCHANGED <<shared, cred, body, data, prob, response_data, thread>>

\* Mutant of PredictProba: the audit thread is started with the inference
\* call, whatever its outcome.
PredictProba_DispatchFirst(r) ==
    /\ pc[r] = "predict_proba"
    /\ calls' = [calls EXCEPT ![r]["predict_proba"] = @ + 1, ![r]["start"] = @ + 1]
    /\ audit' = [audit EXCEPT ![r] = "started"]
    /\ LET res == predict_proba(model, features[r])
       IN  IF res.raised
           THEN /\ Finish(r, ExceptResponse(res))
                /\ task' = [task EXCEPT ![r] = [request |-> data[r], response |-> None]]
                /\ UNCHANGED <<prob, response_data>>
           ELSE /\ prob' = [prob EXCEPT ![r] = res.value]
                /\ response_data' = [response_data EXCEPT ![r] = ResponseData(res.value)]
                /\ task' = [task EXCEPT ![r] = [request |-> data[r],
                                                response |-> ResponseData(res.value)]]
                /\ pc' = [pc EXCEPT ![r] = "jsonify"]
                /\ UNCHANGED response
    /\ UNCHANGED <<shared, cred, body, data, features, store>>

\* Mutant of PredictProba: the estimator is patched again at each request.
PredictProba_PatchesModel(r) ==
    /\ pc[r] = "predict_proba"
    /\ calls' = Called(r, "predict_proba")
    /\ model' = [model EXCEPT !.multi_class = "ovr"]
    /\ LET res == predict_proba(model, features[r])
       IN  IF res.raised
           THEN Finish(r, ExceptResponse(res)) /\ UNCHANGED <<prob, response_data>>
           ELSE /\ prob' = [prob EXCEPT ![r] = res.value]
                /\ response_data' = [response_data EXCEPT ![r] = ResponseData(res.value)]
                /\ pc' = [pc EXCEPT ![r] = "start_thread"]
                /\ UNCHANGED response
    /\ UNCHANGED <<proc, FEATURE_NAMES, cred, body, data, features, thread>>

\* lines 87-95: the model input, the inference call, prob, flagged and
\* response_data.
PredictProba(r) ==
    /\ pc[r] = "predict_proba"
    /\ calls' = Called(r, "predict_proba")
    /\ LET res == predict_proba(model, features[r])
       IN  IF res.raised
           THEN Finish(r, ExceptResponse(res)) /\ UNCHANGED <<prob, response_data>>
           ELSE /\ prob' = [prob EXCEPT ![r] = res.value]
                /\ response_data' = [response_data EXCEPT ![r] = ResponseData(res.value)]
                /\ pc' = [pc EXCEPT ![r] = "start_thread"]
                /\ UNCHANGED response
    /\ UNCHANGED <<shared, cred, body, data, features, thread>>

\* Mutant of StartThread: the thread is handed prob instead of the rounded
\* value of response_data.
StartThread_RawProb(r) ==
    /\ pc[r] = "start_thread"
    /\ calls' = Called(r, "start")
    /\ audit' = [audit EXCEPT ![r] = "started"]
    /\ task' = [task EXCEPT ![r] = [request |-> data[r],
                                    response |-> [fraud_probability |-> prob[r],
                                                  flagged |-> Flag(prob[r])]]]
    /\ pc' = [pc EXCEPT ![r] = "jsonify"]
    /\ UNCHANGED <<shared, cred, body, locals, response, store>>

\* lines 98-101: threading.Thread(target=log_request,
\* args=(data, response_data)).start() starts the thread.
StartThread(r) ==
    /\ pc[r] = "start_thread"
    /\ calls' = Called(r, "start")
    /\ audit' = [audit EXCEPT ![r] = "started"]
    /\ task' = [task EXCEPT ![r] = [request |-> data[r], response |-> response_data[r]]]
    /\ pc' = [pc EXCEPT ![r] = "jsonify"]
    /\ UNCHANGED <<shared, cred, body, locals, response, store>>

\* Mutant of StartThreadFails: the exception is raised after the thread was
\* started.
StartThreadFails_AfterStart(r) ==
    /\ pc[r] = "start_thread"
    /\ calls' = Called(r, "start")
    /\ audit' = [audit EXCEPT ![r] = "started"]
    /\ task' = [task EXCEPT ![r] = [request |-> data[r], response |-> response_data[r]]]
    /\ Finish(r, ExceptResponse(Raise("Exception", Msg("can't start new thread"))))
    /\ UNCHANGED <<shared, cred, body, locals, store>>

\* lines 98-101 and 107-111: start() raises RuntimeError (the system cannot
\* start another thread); the try block's except Exception answers.
StartThreadFails(r) ==
    /\ pc[r] = "start_thread"
    /\ calls' = Called(r, "start")
    /\ Finish(r, ExceptResponse(Raise("Exception", Msg("can't start new thread"))))
    /\ UNCHANGED <<shared, cred, body, locals, thread>>

\* Mutant of Jsonify: the handler joins the audit thread before it returns.
Jsonify_AfterJoin(r) ==
    /\ pc[r] = "jsonify"
    /\ audit[r] \in {"ok", "failed"}
    /\ Finish(r, Response(200, response_data[r]))
    /\ UNCHANGED <<shared, cred, body, locals, calls, thread>>

\* line 103: return jsonify(response_data).
Jsonify(r) ==
    /\ pc[r] = "jsonify"
    /\ Finish(r, Response(200, response_data[r]))
    /\ UNCHANGED <<shared, cred, body, locals, calls, thread>>

\* ------------------------------------------------------- the audit thread

\* db_utils.log_request: the audit record written for request `id`.
log_request(id, request, resp) == [id |-> id, request |-> request, response |-> resp]

\* The thread runs log_request(data, response_data); the store accepts the
\* record.
LogRequest(r) ==
    /\ audit[r] = "started"
    /\ calls' = Called(r, "log_request")
    /\ audit' = [audit EXCEPT ![r] = "ok"]
    /\ store' = store \cup {log_request(r, task[r].request, task[r].response)}
    /\ UNCHANGED <<shared, pc, cred, body, locals, response, task>>

\* Mutant of LogRequestFails: the failure takes the process down.
LogRequestFails_Propagates(r) ==
    /\ audit[r] = "started"
    /\ calls' = Called(r, "log_request")
    /\ audit' = [audit EXCEPT ![r] = "failed"]
    /\ proc' = "crashed"
    /\ UNCHANGED <<model, FEATURE_NAMES, pc, cred, body, locals, response, task, store>>

\* Mutant of LogRequestFails: the write is tried again after a failure.
LogRequestFails_Retry(r) ==
    /\ audit[r] = "started"
    /\ calls[r].log_request < 2
    /\ calls' = Called(r, "log_request")
    /\ UNCHANGED <<shared, pc, cred, body, locals, response, thread>>

\* log_request raises in the thread: the exception ends the thread (the
\* threading excepthook prints it), nothing else sees it.
LogRequestFails(r) ==
    /\ audit[r] = "started"
    /\ calls' = Called(r, "log_request")
    /\ audit' = [audit EXCEPT ![r] = "failed"]
    /\ UNCHANGED <<shared, pc, cred, body, locals, response, task, store>>

\* ----------------------------------------------------------- specification

Handler(r) ==
    \/ RequireApiKey(r)
    \/ GetJson(r)
    \/ ValidatePayload(r)
    \/ PredictProba(r)
    \/ StartThread(r)
    \/ StartThreadFails(r)
    \/ Jsonify(r)

Startup ==
    \/ LoadModel
    \/ LoadModelFails
    \/ PatchModel
    \/ LoadSchema
    \/ LoadSchemaFails

Next ==
    \/ Startup
    \/ \E r \in Reqs : Receive(r)
    \/ \E r \in Reqs : Handler(r)
    \/ \E r \in Reqs : LogRequest(r)
    \/ \E r \in Reqs : LogRequestFails(r)

Spec == Init /\ [][Next]_vars

\* The handlers are scheduled fairly; nothing is assumed of the audit threads.
HandlerFairSpec == Spec /\ \A r \in Reqs : WF_vars(Handler(r))

\* The handlers and the audit threads are scheduled fairly, and each write
\* ends (the store accepts it or fails).
FairSpec ==
    /\ HandlerFairSpec
    /\ \A r \in Reqs : WF_vars(LogRequest(r) \/ LogRequestFails(r))

\* ------------------------------------------------------------------ claims

Done(r) == pc[r] = "done"
Status(r) == response[r].status
Unauthorized(r) == cred[r] \in {"invalid", "missing"}
Rejected(r) == Done(r) /\ Status(r) # 200
Scored(r) == prob[r] # NoProb
GenericError == Response(500, [error |-> Msg("Internal server error")])

\* C1: a request whose credential is missing or invalid is answered with
\* 401, and validate_payload, predict_proba and the audit thread are never
\* invoked for it: it never passes the credential check.
C1_UnauthorizedStopsAtGate ==
    \A r \in Reqs : Unauthorized(r) =>
        /\ pc[r] \in {"require_api_key", "done"}
        /\ Done(r) => Status(r) = 401
        /\ calls[r] = NoCalls
        /\ body[r] = None /\ data[r] = None
        /\ audit[r] = "none"

C1_Witness ==
    \E r \in Reqs : Unauthorized(r) /\ Done(r) /\ Status(r) = 401

\* C2: in every 200 response, flagged equals (fraud_probability > 0.5) for
\* the rounded fraud_probability of that response.
C2_FlaggedMatchesRounded ==
    \A r \in Reqs : (Done(r) /\ Status(r) = 200) =>
        (response[r].body.flagged <=> (response[r].body.fraud_probability > Half4))

\* C3: when the audit write of a request fails, the process keeps serving,
\* the request's handler is not disturbed and its response is 200 with the
\* computed body; a next request is still accepted.
C3_AuditFailureInvisible ==
    \A r \in Reqs : audit[r] = "failed" =>
        /\ proc = "serving"
        /\ pc[r] \in {"jsonify", "done"}
        /\ pc[r] = "jsonify" => ENABLED Jsonify(r)
        /\ Done(r) => response[r] = Response(200, ResponseData(prob[r]))
        /\ \A q \in Reqs : (pc[q] = "idle" /\ (q > 1 => pc[q - 1] # "idle"))
                              => ENABLED Receive(q)

C3_Witness ==
    \E r, q \in Reqs :
        /\ r # q
        /\ audit[r] = "failed" /\ Done(r) /\ Status(r) = 200
        /\ audit[q] = "failed" /\ Done(q) /\ Status(q) = 200

\* C4: once the audit thread is started the handler responds with 200
\* whether or not the thread ever makes progress.
C4_ResponseNeverWaits ==
    \A r \in Reqs : (pc[r] = "jsonify") ~> (Done(r) /\ Status(r) = 200)

\* A response returned while the write has not completed.
C4_Witness ==
    \E r \in Reqs : Done(r) /\ Status(r) = 200 /\ audit[r] = "started"

InferenceFailed(r) == Done(r) /\ calls[r].predict_proba = 1 /\ ~Scored(r)

\* C5: a request whose payload passed validation and whose inference step
\* raised is answered with the generic 500.
C5_InferenceFailureIs500 ==
    \A r \in Reqs : InferenceFailed(r) => response[r] = GenericError

NoJsonBody(r) ==
    body[r] # None /\ body[r].t \in {"empty", "unparseable", "not_json_type", "null"}

\* C6: an authorized request without a JSON object as its body (no body,
\* unparseable, wrong content type, null) is answered with 400, and neither
\* inference nor audit dispatch happens.
C6_BadBodyIs400 ==
    \A r \in Reqs : (Done(r) /\ NoJsonBody(r)) =>
        /\ Status(r) = 400
        /\ calls[r] = NoCalls
        /\ audit[r] = "none"

FailsValidation(r) ==
    /\ data[r] # None
    /\ data[r].t = "object"
    /\ MissingIdx(data[r].v, FEATURE_NAMES) \cup BadTypeIdx(data[r].v, FEATURE_NAMES) # {}

\* C7: an authorized request whose payload fails validation (a feature is
\* missing or a value is no number) is answered with 400 and the validation
\* reason; predict_proba is not called and no audit thread is started.
C7_ValidationFailureIs400 ==
    \A r \in Reqs : FailsValidation(r) =>
        /\ pc[r] \in {"validate_payload", "done"}
        /\ Done(r) =>
              /\ response[r] = Response(400,
                    [error |-> validate_payload(data[r], FEATURE_NAMES).msg])
              /\ response[r].body.error.err \in {"MissingFeatureError", "InvalidTypeError"}
        /\ calls[r].predict_proba = 0
        /\ calls[r].start = 0
        /\ audit[r] = "none"

C7_Witness ==
    \E r \in Reqs :
        /\ FailsValidation(r) /\ Done(r) /\ Status(r) = 400
        /\ data[r].v = PayloadMissing
        /\ response[r].body.error = [err |-> "MissingFeatureError", name |-> "merchant_risk"]

\* C8: once predict_proba has returned a probability for a request, the
\* request ends with 200.
C8_ScoredEndsIn200 ==
    \A r \in Reqs : (Scored(r) /\ Done(r)) => Status(r) = 200

HasAuditTask(r) == audit[r] # "none" \/ task[r] # None \/ calls[r].log_request > 0

\* C9: an audit thread exists only for a request whose response_data has
\* been computed, with that response_data; a rejected request has none.
C9_AuditOnlyAfterScoring ==
    \A r \in Reqs :
        /\ HasAuditTask(r) =>
              /\ Scored(r)
              /\ response_data[r] = ResponseData(prob[r])
              /\ task[r].response = response_data[r]
        /\ Rejected(r) =>
              /\ audit[r] = "none"
              /\ task[r] = None
              /\ calls[r].log_request = 0

C9_Witness ==
    /\ \E r \in Reqs : audit[r] # "none" /\ Scored(r)
    /\ \E r \in Reqs : Rejected(r) /\ Status(r) = 500 /\ calls[r].predict_proba = 1

C10_Counts ==
    \A r \in Reqs :
        /\ calls[r].log_request <= 1
        /\ calls[r].start <= 1
        /\ calls[r].log_request <= calls[r].start
        /\ (Done(r) /\ Status(r) = 200) =>
              /\ calls[r].start = 1
              /\ audit[r] = "started" \/ calls[r].log_request = 1

C10_NoRetry ==
    \A r \in Reqs : audit[r] = "failed" =>
        /\ audit'[r] = "failed"
        /\ calls'[r].log_request = calls[r].log_request

\* C10: log_request is invoked at most once per request and never again
\* after a failure; a request answered with 200 has exactly one audit
\* thread, which makes exactly one attempt.
C10_AtMostOnce ==
    /\ []C10_Counts
    /\ [][C10_NoRetry]_vars
    /\ \A r \in Reqs : (Done(r) /\ Status(r) = 200) ~> (calls[r].log_request = 1)

C10_Witness ==
    \E r \in Reqs :
        Done(r) /\ Status(r) = 200 /\ audit[r] = "failed" /\ calls[r].log_request = 1

\* The record of request r's received payload and delivered body.
ExactRecord(r) == log_request(r, body[r], response[r].body)

C11_Pairing ==
    /\ \A rec \in store :
          /\ audit[rec.id] = "ok"
          /\ rec.request = body[rec.id]
          /\ rec.response = response_data[rec.id]
          /\ Done(rec.id) => rec = ExactRecord(rec.id)
    /\ \A r \in Reqs : audit[r] = "ok" =>
          Cardinality({rec \in store : rec.id = r}) = 1

C11_NoChangeAfterHandoff ==
    \A r \in Reqs : task[r] # None =>
        /\ task'[r] = task[r]
        /\ data'[r] = data[r]
        /\ response_data'[r] = response_data[r]

\* C11: a request answered with 200 eventually has its audit write ended,
\* and unless the store failed the persisted record pairs exactly the
\* payload received with the body sent to that client; records are never
\* mixed between requests and the pair is not changed after the handoff.
C11_ExactRecordPersisted ==
    /\ []C11_Pairing
    /\ [][C11_NoChangeAfterHandoff]_vars
    /\ \A r \in Reqs : (Done(r) /\ Status(r) = 200) ~>
            (audit[r] = "failed" \/ ExactRecord(r) \in store)

C11_Witness ==
    \E r, q \in Reqs :
        /\ r # q
        /\ body[r] # body[q] /\ response[r] # response[q]
        /\ Done(r) /\ Status(r) = 200 /\ ExactRecord(r) \in store
        /\ Done(q) /\ Status(q) = 200 /\ ExactRecord(q) \in store

\* The payload of request r holds a number for every schema feature, and
\* the handler is past line 84.
ValidComplete(r) ==
    /\ data[r] # None
    /\ data[r].t = "object"
    /\ MissingIdx(data[r].v, FEATURE_NAMES) \cup BadTypeIdx(data[r].v, FEATURE_NAMES) = {}
Validated(r) == calls[r].validate_payload = 1 /\ ValidComplete(r)

SameFeatureValues(r, q) ==
    \A i \in 1..Len(FEATURE_NAMES) :
        data[r].v[FEATURE_NAMES[i]] = data[q].v[FEATURE_NAMES[i]]

\* C12: for a payload holding a number for every schema feature, the vector
\* fed to the model has the schema's length and its i-th element is the
\* payload's value for schema feature i, whatever other keys the payload
\* holds.
C12_VectorInSchemaOrder ==
    /\ \A r \in Reqs : Validated(r) =>
          /\ Len(features[r]) = Len(FEATURE_NAMES)
          /\ \A i \in 1..Len(FEATURE_NAMES) :
                features[r][i] = data[r].v[FEATURE_NAMES[i]]
          /\ pc[r] # "predict_proba" => calls[r].predict_proba = 1
    /\ \A r, q \in Reqs :
          (r < q /\ Validated(r) /\ Validated(q) /\ SameFeatureValues(r, q))
              => features[r] = features[q]

C12_Witness ==
    \E r, q \in Reqs :
        /\ proc = "serving" /\ FEATURE_NAMES = Schema3
        /\ data[r] = Object(PayloadAx) /\ data[q] = Object(PayloadA)
        /\ Validated(r) /\ Validated(q)
        /\ features[r] = VecA /\ features[q] = VecA
        /\ calls[r].predict_proba = 1 /\ calls[q].predict_proba = 1

\* C13: the process serves, and a request is handled, only with a loaded
\* model and a loaded, non-empty feature schema.
C13_ServesOnlyWhenLoaded ==
    (proc = "serving" \/ \E r \in Reqs : pc[r] # "idle") =>
        /\ proc = "serving"
        /\ model # None
        /\ Len(FEATURE_NAMES) > 0

\* Requests are handled only by the serving process, whose model carries
\* the patched attribute.
C14_PatchedBeforeRequests ==
    \A r \in Reqs : pc[r] # "idle" =>
        proc = "serving" /\ model.multi_class = "auto"

\* A step of the serving process leaves model, FEATURE_NAMES and proc alone;
\* model changes only when it is loaded and in the one patch step, which
\* start-up never returns to.
C14_Frame ==
    /\ proc = "serving" =>
          model' = model /\ FEATURE_NAMES' = FEATURE_NAMES /\ proc' = proc
    /\ model' # model =>
          /\ proc \in {"load_model", "patch"}
          /\ proc' # proc
          /\ \A r \in Reqs : pc[r] = "idle"
    /\ (model # None /\ model' # model) =>
          /\ proc = "patch"
          /\ model.multi_class = "absent" /\ model'.multi_class = "auto"
          /\ model'.fn = model.fn
    /\ (proc' = "patch" /\ proc # "patch") => proc = "load_model"

\* C14: after start-up no step of a request or of an audit thread changes
\* model or FEATURE_NAMES; the compatibility patch is applied at most once,
\* at start-up, before any request is handled.
C14_SharedStateFrozen ==
    /\ []C14_PatchedBeforeRequests
    /\ [][C14_Frame]_vars

C14_Witness ==
    \E r, q \in Reqs :
        /\ proc = "serving" /\ model.multi_class = "auto" /\ FEATURE_NAMES = Schema3
        /\ Done(r) /\ Status(r) = 200 /\ audit[r] = "ok"
        /\ Done(q) /\ Status(q) = 400 /\ calls[q].predict_proba = 1

\* C15: two requests carrying identical feature values receive the same
\* status and the same fraud_probability and flagged, in every interleaving
\* of requests and audit threads.
C15_IdenticalFeaturesIdenticalResponse ==
    \A r, q \in Reqs :
        (Done(r) /\ Done(q) /\ Validated(r) /\ Validated(q) /\ SameFeatureValues(r, q))
            => response[r] = response[q]

StatusCodes == {200, 400, 401, 500}

C16_Statuses ==
    \A r \in Reqs :
        /\ Done(r) <=> response[r] # NoResponse
        /\ Done(r) => Status(r) \in StatusCodes

C16_OneResponse ==
    \A r \in Reqs : response[r] # NoResponse =>
        response'[r] = response[r] /\ pc'[r] = "done"

\* C16: every request that arrived ends with exactly one response, of
\* status 200, 400, 401 or 500, whether or not any audit thread ever ends.
C16_Terminates ==
    /\ []C16_Statuses
    /\ [][C16_OneResponse]_vars
    /\ \A r \in Reqs : (pc[r] # "idle") ~> Done(r)

C16_Witness ==
    \E r, q \in Reqs :
        /\ Done(r) /\ Status(r) = 200 /\ audit[r] = "started"
        /\ Done(q) /\ Status(q) = 401
        /\ \A p \in Reqs : Done(p)

\* C17: a request with an audit thread is answered with 200 and the body
\* handed to the thread, every record written pairs with the body its
\* client received, and a request answered with 400, 401 or 500 has no
\* audit thread and no record.
C17_AuditedIsDelivered ==
    /\ \A r \in Reqs :
          /\ HasAuditTask(r) =>
                /\ pc[r] \in {"jsonify", "done"}
                /\ Done(r) => response[r] = Response(200, task[r].response)
          /\ Rejected(r) =>
                /\ Status(r) \in {400, 401, 500}
                /\ ~HasAuditTask(r)
                /\ \A rec \in store : rec.id # r
    /\ \A rec \in store :
          Done(rec.id) => response[rec.id] = Response(200, rec.response)

C17_Witness ==
    \E r, q \in Reqs :
        /\ Done(r) /\ Status(r) = 200 /\ audit[r] = "ok"
        /\ log_request(r, data[r], response[r].body) \in store
        /\ Rejected(q) /\ Status(q) = 500 /\ calls[q].start = 1 /\ audit[q] = "none"

=============================================================================
